---- MODULE Spec2Model ----
(***************************************************************************)
(* Model of the ordering field of the courses application                  *)
(* (education/courses/fields.py, OrderField) together with the saves and   *)
(* deletions of orderable records (Module within a Course, Content within  *)
(* a Module) issued by the views.                                          *)
(*                                                                         *)
(* One orderable table is modelled.  Its rows carry the primary key, the   *)
(* foreign key named by for_fields ("course" for Module; Content is the    *)
(* same with "module") and the order column.  A save is two steps, as in   *)
(* the ORM: pre_save runs a SELECT for the latest row, then the INSERT is  *)
(* executed; nothing in the code holds a lock between the two.             *)
(***************************************************************************)
EXTENDS Integers, FiniteSets, Sequences, TLC

\* ---- bounds of the model ----
\* records created in a sequential run / in a concurrent run; requests
MaxRecords == 4
MaxConc == 3
NumReq == 2

Req == 1..NumReq
Ids == 1..(MaxRecords + MaxConc)
Course == {"c1", "c2"}

\* Python None for the order attribute; stored orders are never negative
\* (PositiveIntegerField), so -1 cannot be confused with a stored value.
None == -1
\* order values a caller supplies explicitly
ExplicitOrders == {0, 5}

\* OrderField.__init__: for_fields is None (the default), an empty list or
\* a list of field names
ForFieldsNone == [isNone |-> TRUE, names |-> <<>>]
ForFieldsEmpty == [isNone |-> FALSE, names |-> <<>>]
ForFieldsCourse == [isNone |-> FALSE, names |-> <<"course">>]
ForFieldsChoices == {ForFieldsNone, ForFieldsEmpty, ForFieldsCourse}

VARIABLES store, nextId, for_fields, inst, pc, last

vars == <<store, nextId, for_fields, inst, pc, last>>

\* `if self.for_fields:` -- None and [] are both falsy
Truthy(ff) == ~ff.isNone /\ Len(ff.names) > 0

\* variant of the filter that ignores the query
FilterNone(qs, model_instance, ff) == qs

\* qs.filter(**query) with query = {field: getattr(model_instance, field)}
Filter(qs, model_instance, ff) ==
    {r \in qs : \A i \in 1..Len(ff.names) : r[ff.names[i]] = model_instance[ff.names[i]]}

\* qs.latest('order'): the row with the greatest order (qs non-empty)
Latest(qs) == CHOOSE r \in qs : \A s \in qs : s.order <= r.order

\* pre_save variants used to test the properties against plausible slips
\* the first order of an empty group is 1
PreSaveOneBased(objects, model_instance, ff) ==
    IF model_instance.order = None
    THEN LET qs == IF Truthy(ff) THEN Filter(objects, model_instance, ff) ELSE objects
             value == IF qs = {} THEN 1 ELSE Latest(qs).order + 1
         IN [value |-> value, order |-> value, queried |-> TRUE]
    ELSE [value |-> model_instance.order, order |-> model_instance.order,
          queried |-> FALSE]

\* the number of rows of the group instead of the latest order + 1
PreSaveCount(objects, model_instance, ff) ==
    IF model_instance.order = None
    THEN LET qs == IF Truthy(ff) THEN Filter(objects, model_instance, ff) ELSE objects
             value == Cardinality(qs)
         IN [value |-> value, order |-> value, queried |-> TRUE]
    ELSE [value |-> model_instance.order, order |-> model_instance.order,
          queried |-> FALSE]

\* the latest order itself, without the increment
PreSaveNoIncrement(objects, model_instance, ff) ==
    IF model_instance.order = None
    THEN LET qs == IF Truthy(ff) THEN Filter(objects, model_instance, ff) ELSE objects
             value == IF qs = {} THEN 0 ELSE Latest(qs).order
         IN [value |-> value, order |-> value, queried |-> TRUE]
    ELSE [value |-> model_instance.order, order |-> model_instance.order,
          queried |-> FALSE]

\* a held value that collides with a row of the group is recomputed
PreSaveDedup(objects, model_instance, ff) ==
    LET qs == IF Truthy(ff) THEN Filter(objects, model_instance, ff) ELSE objects
        value == IF qs = {} THEN 0 ELSE Latest(qs).order + 1
    IN IF model_instance.order = None
          \/ \E r \in qs : r.id /= model_instance.pk /\ r.order = model_instance.order
       THEN [value |-> value, order |-> value, queried |-> TRUE]
       ELSE [value |-> model_instance.order, order |-> model_instance.order,
             queried |-> FALSE]

\* the value is recomputed on every call, whatever the instance holds
PreSaveAlways(objects, model_instance, ff) ==
    LET qs == IF Truthy(ff) THEN Filter(objects, model_instance, ff) ELSE objects
        value == IF qs = {} THEN 0 ELSE Latest(qs).order + 1
    IN [value |-> value, order |-> value, queried |-> TRUE]

\* the rows are filtered by course whatever for_fields says
PreSaveAlwaysFilter(objects, model_instance, ff) ==
    IF model_instance.order = None
    THEN LET qs == {r \in objects : r.course = model_instance.course}
             value == IF qs = {} THEN 0 ELSE Latest(qs).order + 1
         IN [value |-> value, order |-> value, queried |-> TRUE]
    ELSE [value |-> model_instance.order, order |-> model_instance.order,
          queried |-> FALSE]

\* OrderField.pre_save(model_instance, add): the value returned, the order
\* attribute of the instance afterwards, and whether the table was queried
PreSave(objects, model_instance, ff) ==
    IF model_instance.order = None
    THEN LET qs0 == objects
             qs == IF Truthy(ff) THEN Filter(qs0, model_instance, ff) ELSE qs0
             value == IF qs = {} THEN 0 ELSE Latest(qs).order + 1
         IN [value |-> value, order |-> value, queried |-> TRUE]
    ELSE [value |-> model_instance.order, order |-> model_instance.order,
          queried |-> FALSE]

NoInst == [pk |-> 0, course |-> "c1", order |-> None, computed |-> 0]
NoEvent == [op |-> "none", req |-> 0, pk |-> 0, given |-> None,
            value |-> None, queried |-> FALSE]

InFlight == {p \in Req : pc[p] = "presaved"}
AllIdle == InFlight = {}

Init ==
    /\ store = {}
    /\ nextId = 1
    /\ for_fields \in ForFieldsChoices
    /\ inst = [p \in Req |-> NoInst]
    /\ pc = [p \in Req |-> "idle"]
    /\ last = NoEvent

\* Model.save() of a new instance, first half: the field's pre_save runs
\* (Content.objects.create(module=..., item=obj); formset.save() of an
\* extra Module form).  o is the order attribute the caller left on the
\* instance: None unless given explicitly.
BeginCreate(p, c, o) ==
    /\ pc[p] = "idle"
    /\ LET model_instance == [pk |-> 0, course |-> c, order |-> o]
           res == PreSave(store, model_instance, for_fields)
       IN /\ inst' = [inst EXCEPT ![p] = [pk |-> 0, course |-> c, order |-> res.order,
                                          computed |-> IF res.queried THEN 1 ELSE 0]]
          /\ last' = [op |-> "presave", req |-> p, pk |-> 0, given |-> o,
                      value |-> res.value, queried |-> res.queried]
    /\ pc' = [pc EXCEPT ![p] = "presaved"]
    /\ UNCHANGED <<store, nextId, for_fields>>

\* pre_save called once more on the instance whose order attribute is now set
PreSaveAgain(p) ==
    /\ pc[p] = "presaved"
    /\ LET model_instance == [pk |-> 0, course |-> inst[p].course, order |-> inst[p].order]
           res == PreSave(store, model_instance, for_fields)
       IN /\ inst' = [inst EXCEPT ![p].order = res.order,
                                  ![p].computed = @ + (IF res.queried THEN 1 ELSE 0)]
          /\ last' = [op |-> "again", req |-> p, pk |-> 0, given |-> inst[p].order,
                      value |-> res.value, queried |-> res.queried]
    /\ UNCHANGED <<store, nextId, for_fields, pc>>

\* the row written by the INSERT
NewRow(id, instance) ==
    [id |-> id, course |-> instance.course, order |-> instance.order,
     computed |-> instance.computed]

\* variants of the INSERT: one that moves a duplicate to the end of its
\* group, one that shifts the rows at or after the new position
InsertRowsRetry(objects, id, instance) ==
    LET grp == {r \in objects : Truthy(for_fields) => r.course = instance.course}
    IN IF \E r \in grp : r.order = instance.order
       THEN objects \cup {[NewRow(id, instance) EXCEPT !.order = Latest(grp).order + 1]}
       ELSE objects \cup {NewRow(id, instance)}

InsertRowsShift(objects, id, instance) ==
    {IF (Truthy(for_fields) => r.course = instance.course) /\ r.order >= instance.order
     THEN [r EXCEPT !.order = @ + 1] ELSE r : r \in objects}
        \cup {NewRow(id, instance)}

\* Model.save() of a new instance, second half: the INSERT
InsertRows(objects, id, instance) == objects \cup {NewRow(id, instance)}

Insert(p) ==
    /\ pc[p] = "presaved"
    /\ store' = InsertRows(store, nextId, inst[p])
    /\ nextId' = nextId + 1
    /\ last' = [op |-> "insert", req |-> p, pk |-> nextId, given |-> inst[p].order,
                value |-> inst[p].order, queried |-> FALSE]
    /\ inst' = [inst EXCEPT ![p] = NoInst]
    /\ pc' = [pc EXCEPT ![p] = "idle"]
    /\ UNCHANGED for_fields

\* variant of the save of a persisted instance in which the form has
\* blanked the order attribute
EditBlankOrder(id) ==
    /\ \E r \in store :
        /\ r.id = id
        /\ LET model_instance == [pk |-> r.id, course |-> r.course, order |-> None]
               res == PreSave(store, model_instance, for_fields)
           IN /\ store' = (store \ {r}) \cup
                     {[r EXCEPT !.order = res.value,
                                !.computed = @ + (IF res.queried THEN 1 ELSE 0)]}
              /\ last' = [op |-> "update", req |-> 0, pk |-> r.id, given |-> r.order,
                          value |-> res.value, queried |-> res.queried]
    /\ UNCHANGED <<nextId, for_fields, inst, pc>>

\* Model.save() of a persisted instance (formset.save() of a changed Module
\* form: only title and description are form fields): pre_save runs with
\* add=False on the instance loaded from the table, then the UPDATE
Edit(id) ==
    /\ \E r \in store :
        /\ r.id = id
        /\ LET model_instance == [pk |-> r.id, course |-> r.course, order |-> r.order]
               res == PreSave(store, model_instance, for_fields)
           IN /\ store' = (store \ {r}) \cup
                     {[r EXCEPT !.order = res.value,
                                !.computed = @ + (IF res.queried THEN 1 ELSE 0)]}
              /\ last' = [op |-> "update", req |-> 0, pk |-> r.id, given |-> r.order,
                          value |-> res.value, queried |-> res.queried]
    /\ UNCHANGED <<nextId, for_fields, inst, pc>>

\* content.delete(); formset.save() of a form marked for deletion
Delete(id) ==
    /\ \E r \in store :
        /\ r.id = id
        /\ store' = store \ {r}
        /\ last' = [op |-> "delete", req |-> 0, pk |-> r.id, given |-> r.order,
                    value |-> r.order, queried |-> FALSE]
    /\ UNCHANGED <<nextId, for_fields, inst, pc>>

ConcBeginCreate(p, c, o) == nextId + Cardinality(InFlight) <= MaxConc /\ BeginCreate(p, c, o)

Next ==
    \/ \E p \in Req, c \in Course, o \in {None} \cup ExplicitOrders : ConcBeginCreate(p, c, o)
    \/ \E p \in Req : PreSaveAgain(p)
    \/ \E p \in Req : Insert(p)
    \/ \E id \in Ids : Edit(id)
    \/ \E id \in Ids : Delete(id)

Spec == Init /\ [][Next]_vars

\* Sequential executions in which no caller supplies an order: a save
\* starts only when no other save is between its read and its write.
SeqBeginCreate(p, c) == nextId <= MaxRecords /\ AllIdle /\ BeginCreate(p, c, None)
SeqEdit(id) == AllIdle /\ Edit(id)
SeqDelete(id) == AllIdle /\ Delete(id)

NextSeq ==
    \/ \E p \in Req, c \in Course : SeqBeginCreate(p, c)
    \/ \E p \in Req : PreSaveAgain(p)
    \/ \E p \in Req : Insert(p)
    \/ \E id \in Ids : SeqEdit(id)
    \/ \E id \in Ids : SeqDelete(id)

SpecSeq == Init /\ [][NextSeq]_vars

\* Sequential executions in which a caller may supply the order.
SeqBeginCreateAny(p, c, o) == nextId <= MaxRecords /\ AllIdle /\ BeginCreate(p, c, o)

NextSeqAny ==
    \/ \E p \in Req, c \in Course, o \in {None} \cup ExplicitOrders : SeqBeginCreateAny(p, c, o)
    \/ \E p \in Req : PreSaveAgain(p)
    \/ \E p \in Req : Insert(p)
    \/ \E id \in Ids : SeqEdit(id)
    \/ \E id \in Ids : SeqDelete(id)

SpecSeqAny == Init /\ [][NextSeqAny]_vars

\* ------------------------------------------------------------------------
\* Properties
\* ------------------------------------------------------------------------

Max(S) == CHOOSE m \in S : \A x \in S : x <= m

\* rows a and b belong to the same ordering group under the configured
\* for_fields (with no for_fields the group is the whole table)
SameKey(a, b) == Truthy(for_fields) => a.course = b.course

\* order values persisted in the group of instance a
GroupOrders(objects, a) == {r.order : r \in {x \in objects : SameKey(x, a)}}

\* request p has just run pre_save for a new instance in this step
JustPreSaved(p) == pc[p] = "idle" /\ pc'[p] = "presaved"
\* request p has just executed its INSERT in this step
JustInserted(p) == pc[p] = "presaved" /\ pc'[p] = "idle"

\* C1: a record saved with its order unset gets 0 when its group has no
\* persisted record, and 1 + the greatest persisted order of its group
\* otherwise.
C1_DefaultAssignment ==
    [][\A p \in Req :
         (JustPreSaved(p) /\ last'.given = None) =>
             LET G == GroupOrders(store, inst'[p])
                 expected == IF G = {} THEN 0 ELSE 1 + Max(G)
             IN inst'[p].order = expected /\ last'.value = expected]_vars

C1_Witness ==
    /\ last.op = "presave" /\ last.given = None /\ last.value = 3
    /\ Truthy(for_fields)
    /\ pc[last.req] = "presaved"
    /\ inst[last.req].order = 3
    /\ GroupOrders(store, inst[last.req]) = {0, 1, 2}

\* C2 (as stated): no two persisted records of one group have the same
\* order value, and every order value is a non-negative integer.
C2_UniqueOrders ==
    /\ \A r \in store : r.order \in Nat
    /\ \A r, s \in store : (r.id /= s.id /\ SameKey(r, s)) => r.order /= s.order

\* C2 (amended): in sequential runs, no two persisted records of one group
\* whose order values were both assigned by pre_save (none given by the
\* caller) have the same order value, and every order value is a
\* non-negative integer.
C2_UniqueDefaultOrders ==
    /\ \A r \in store : r.order \in Nat
    /\ \A r, s \in store :
         (r.id /= s.id /\ SameKey(r, s) /\ r.computed = 1 /\ s.computed = 1)
             => r.order /= s.order

C2_Witness ==
    /\ last.op = "delete"
    /\ \E r, s, t \in store :
         /\ r.id /= s.id /\ SameKey(r, s) /\ SameKey(r, t)
         /\ r.computed = 1 /\ s.computed = 1 /\ t.computed = 0
         /\ s.id > t.id /\ t.id > r.id

\* C3: when the order attribute holds a value at save time, pre_save
\* returns it unchanged without querying, also when it collides with a
\* persisted record of the group.
C3_ExplicitKept ==
    (last.op \in {"presave", "again", "update"} /\ last.given /= None) =>
        /\ last.value = last.given
        /\ ~last.queried
        /\ (last.op /= "update" => inst[last.req].order = last.given)

C3_Witness ==
    /\ last.op = "presave" /\ last.given = 5 /\ last.value = 5
    /\ inst[last.req].order = 5
    /\ 5 \in GroupOrders(store, inst[last.req])
    /\ \E r \in store : r.order = 0

\* C4: the INSERT writes the order value computed at read time as it is,
\* without detecting a duplicate that was written since and without
\* retrying; the witness is the race: two records of one group, both
\* assigned by pre_save, with equal order.
C4_NoDetectNoRetry ==
    [][\A p \in Req :
         JustInserted(p) =>
             /\ \E r \in store' :
                  /\ r.id = nextId /\ r.order = inst[p].order
                  /\ r.course = inst[p].course
                  /\ store' = store \cup {r}
             /\ nextId' = nextId + 1]_vars

C4_Witness ==
    \E r, s \in store :
        /\ r.id /= s.id /\ SameKey(r, s) /\ r.order = s.order
        /\ r.computed = 1 /\ s.computed = 1

\* C5: pre_save computes an order value only on the save that first
\* persists a record whose order was left unset, at most once per record;
\* a save of a persisted record computes nothing and keeps the stored
\* order.
C5_ComputedOnce ==
    /\ last.queried => (last.op = "presave" /\ last.given = None)
    /\ last.op = "update" => (~last.queried /\ last.value = last.given)
    /\ \A r \in store : r.computed <= 1
    /\ \A p \in Req : inst[p].computed <= 1

C5_Witness ==
    /\ last.op = "update"
    /\ \E r, s \in store :
         /\ r.id = last.pk /\ r.computed = 1 /\ r.order = last.value
         /\ s.id /= r.id /\ SameKey(r, s) /\ s.order > r.order

\* C6: no step changes the order value (or the group) of a record that
\* stays persisted: existing records are never renumbered.
C6_OthersUntouched ==
    [][\A r \in store : \A s \in store' :
         r.id = s.id => (r.order = s.order /\ r.course = s.course)]_vars

C6_Witness ==
    /\ last.op = "insert"
    /\ \E r, s \in store :
         /\ s.id = last.pk /\ r.id /= s.id /\ SameKey(r, s)
         /\ r.order >= s.order

\* the value pre_save would compute for a new record of group c
NextValue(objects, c) ==
    PreSave(objects, [pk |-> 0, course |-> c, order |-> None], for_fields).value

\* C7: with for_fields = ['course'], a step that adds or removes only
\* records of other courses leaves the next value of course b unchanged.
C7_GroupsIndependent ==
    [][Truthy(for_fields) =>
         \A b \in Course :
             (\A r \in (store \ store') \cup (store' \ store) : r.course /= b)
                 => NextValue(store', b) = NextValue(store, b)]_vars

C7_Witness ==
    /\ Truthy(for_fields)
    /\ last.op = "insert"
    /\ \E r, s \in store :
         /\ r.id = last.pk /\ r.course = "c1" /\ s.course = "c2"
         /\ r.order = 1
         /\ NextValue(store, "c1") = 2
         /\ NextValue(store, "c2") = 1

\* C8: without for_fields all records share one increasing sequence
\* whatever their course, and three default saves into an empty table
\* give 0, 1, 2.
C8_GlobalSequence ==
    ~Truthy(for_fields) =>
        /\ \A r, s \in store : r.id < s.id => r.order < s.order
        /\ ({1, 2, 3} \subseteq {r.id : r \in store}
               => \A r \in store : r.id <= 3 => r.order = r.id - 1)

C8_Witness ==
    /\ ~Truthy(for_fields)
    /\ \E r1, r2, r3 \in store :
         /\ r1.id = 1 /\ r2.id = 2 /\ r3.id = 3
         /\ r1.order = 0 /\ r2.order = 1 /\ r3.order = 2
         /\ r1.course /= r2.course /\ r2.course = r3.course

\* C9: a further pre_save on an instance whose order is set returns the
\* value of the previous call and changes neither the instance nor the
\* table, whatever was persisted in between.
C9_Idempotent ==
    [][(last'.op = "again" /\ pc[last'.req] = "presaved") =>
          /\ last'.value = inst[last'.req].order
          /\ inst' = inst
          /\ store' = store]_vars

C9_Witness ==
    /\ last.op = "again"
    /\ inst[last.req].computed = 1
    /\ last.value = inst[last.req].order
    /\ \E r \in store : SameKey(r, inst[last.req]) /\ r.order >= last.value

\* C10: in sequential runs without explicit orders, the record written
\* has an order strictly greater than every record persisted in its group,
\* also after deletions.
C10_StrictlyGreater ==
    [][\A p \in Req :
         JustInserted(p) =>
             \A r \in store : SameKey(r, inst[p]) => inst[p].order > r.order]_vars

C10_Witness ==
    /\ last.op = "insert"
    /\ Cardinality(store) < nextId - 1
    /\ \E r, s \in store : s.id = last.pk /\ r.id /= s.id /\ SameKey(r, s)

TypeOK ==
    /\ nextId \in 1..(MaxRecords + 1)
    /\ for_fields \in ForFieldsChoices
    /\ \A r \in store : r.id \in Ids /\ r.course \in Course /\ r.order \in Nat
    /\ \A p \in Req : pc[p] \in {"idle", "presaved"}
====
